---- MODULE Spec2Model ----
(***************************************************************************)
(* The WhatsApp webhook of the hotel bot (src/hotel-bot-server.js): the    *)
(* per-identity session map, the availability check over the bookings      *)
(* collection, and the booking confirmation pipeline of POST /whatsapp.    *)
(* The handler is an async function: it runs synchronously up to each      *)
(* await, and requests in flight interleave at those awaits.  One action   *)
(* of the model is one such synchronous segment.                           *)
(*                                                                         *)
(* Texts are sequences of one-character strings, so that trim(),           *)
(* toLowerCase(), the regular expression, the dayjs parse and format and   *)
(* the string comparison of dates are computed, not assumed.               *)
(***************************************************************************)
EXTENDS Integers, Sequences, FiniteSets, Bags, TLC

(***************************************************************************)
(* Bounds of the model.                                                    *)
(***************************************************************************)
\* total number of inbound messages of one run
MaxReqs == 3
\* total number of inbound messages of a run that handles them one at a time
MaxSeqReqs == 4
\* number of requests that can be in flight at the same time
MaxInFlight == 2
\* total number of inbound messages of a run with a single guest
MaxGuestReqs == 4

(***************************************************************************)
(* Characters and strings.                                                 *)
(***************************************************************************)
Digits == <<"0", "1", "2", "3", "4", "5", "6", "7", "8", "9">>

IsDigit(c) == \E i \in 1..10 : Digits[i] = c

DigitVal(c) == (CHOOSE i \in 1..10 : Digits[i] = c) - 1

\* the characters String.prototype.trim() and the regular expression's \s remove
IsSpace(c) == c \in {" ", "\t", "\n", "\r"}

\* UTF-16 code units of the characters a formatted date is made of
CharCode(c) == IF IsDigit(c) THEN 48 + DigitVal(c) ELSE 45

\* String.prototype.toLowerCase(), on the letters the messages use
LowerChar(c) ==
  CASE c = "H" -> "h"
    [] c = "O" -> "o"
    [] c = "L" -> "l"
    [] c = "A" -> "a"
    [] c = "M" -> "m"
    [] c = "E" -> "e"
    [] c = "N" -> "n"
    [] c = "U" -> "u"
    [] OTHER -> c

toLowerCase(s) == [i \in 1..Len(s) |-> LowerChar(s[i])]

\* String.prototype.trim()
trim(s) ==
  LET keep == {i \in 1..Len(s) : ~IsSpace(s[i])}
  IN IF keep = {} THEN <<>>
     ELSE LET lo == CHOOSE i \in keep : \A j \in keep : i <= j
              hi == CHOOSE i \in keep : \A j \in keep : j <= i
          IN SubSeq(s, lo, hi)

\* the JavaScript < on two strings: code units compared left to right
RECURSIVE StrLess(_, _)
StrLess(a, b) ==
  IF b = <<>> THEN FALSE
  ELSE IF a = <<>> THEN TRUE
  ELSE IF CharCode(Head(a)) # CharCode(Head(b))
       THEN CharCode(Head(a)) < CharCode(Head(b))
       ELSE StrLess(Tail(a), Tail(b))

StrGreater(a, b) == StrLess(b, a)

(***************************************************************************)
(* The regular expression of the date range,                               *)
(*   /(\d{2}\/\d{2}\/\d{4})\s*-\s*(\d{2}\/\d{2}\/\d{4})/                   *)
(* searched anywhere in the trimmed text.                                  *)
(***************************************************************************)
\* \d{2}\/\d{2}\/\d{4} at position i
DateAt(s, i) ==
  /\ i >= 1
  /\ i + 9 <= Len(s)
  /\ \A k \in {0, 1, 3, 4, 6, 7, 8, 9} : IsDigit(s[i + k])
  /\ s[i + 2] = "/"
  /\ s[i + 5] = "/"

\* the first position at or after i that holds no white space (\s* is greedy,
\* and "-" and a digit are no white space, so no backtracking finds more)
RECURSIVE SkipSpace(_, _)
SkipSpace(s, i) ==
  IF i <= Len(s) /\ IsSpace(s[i]) THEN SkipSpace(s, i + 1) ELSE i

\* the position of the second date of a match that starts at i, or 0
SecondDateOf(s, i) ==
  IF ~DateAt(s, i) THEN 0
  ELSE LET h == SkipSpace(s, i + 10)
       IN IF h <= Len(s) /\ s[h] = "-"
          THEN LET j == SkipSpace(s, h + 1)
               IN IF DateAt(s, j) THEN j ELSE 0
          ELSE 0

NoMatch == <<>>

\* String.prototype.match(regex): the leftmost match, as <<match[1], match[2]>>
RegexMatch(s) ==
  LET starts == {i \in 1..Len(s) : SecondDateOf(s, i) # 0}
  IN IF starts = {} THEN NoMatch
     ELSE LET i == CHOOSE k \in starts : \A m \in starts : k <= m
          IN <<SubSeq(s, i, i + 9),
               SubSeq(s, SecondDateOf(s, i), SecondDateOf(s, i) + 9)>>

(***************************************************************************)
(* dayjs(text, 'DD/MM/YYYY').format('YYYY-MM-DD') with the customParseFormat*)
(* plugin and no strict flag: the three numbers are handed to              *)
(* new Date(year, month - 1, day), which carries an out-of-range day or    *)
(* month over into the next month or year instead of failing.              *)
(***************************************************************************)
\* the clock read by the parse for a component that is zero
Now == [year |-> 2025, month |-> 10, date |-> 2]

Num2(s, i) == 10 * DigitVal(s[i]) + DigitVal(s[i + 1])

Num4(s, i) == 100 * Num2(s, i) + Num2(s, i + 2)

IsLeap(y) == y % 4 = 0 /\ (y % 100 # 0 \/ y % 400 = 0)

\* days of month m (1..12) of year y
DaysInMonth(y, m) ==
  IF m = 2 THEN (IF IsLeap(y) THEN 29 ELSE 28)
  ELSE IF m \in {4, 6, 9, 11} THEN 30 ELSE 31

\* new Date(y, m - 1, d) for d >= 1: the calendar date d - 1 days after the
\* first of month m of year y, m possibly beyond 12
RECURSIVE NormalizeDate(_, _, _)
NormalizeDate(y, m, d) ==
  IF m > 12 THEN NormalizeDate(y + 1, m - 12, d)
  ELSE IF d > DaysInMonth(y, m) THEN NormalizeDate(y, m + 1, d - DaysInMonth(y, m))
  ELSE [year |-> y, month |-> m, date |-> d]

\* the plugin's parser on a text that matched \d{2}/\d{2}/\d{4}
ParseDDMMYYYY(s) ==
  LET day == Num2(s, 1)
      month == Num2(s, 4)
      year == Num4(s, 7)
      d == IF day # 0 THEN day
           ELSE IF year = 0 /\ month = 0 THEN Now.date ELSE 1
      y0 == IF year # 0 THEN year ELSE Now.year
      \* new Date() reads a year below 100 as 19xx
      y == IF y0 < 100 THEN 1900 + y0 ELSE y0
      m == IF year # 0 /\ month = 0 THEN 1
           ELSE IF month > 0 THEN month ELSE Now.month
  IN NormalizeDate(y, m, d)

\* the decimal digits of n, at least w of them (padStart with "0")
RECURSIVE Pad(_, _)
Pad(n, w) ==
  IF w <= 1 /\ n < 10 THEN <<Digits[n + 1]>>
  ELSE Append(Pad(n \div 10, w - 1), Digits[(n % 10) + 1])

\* .format('YYYY-MM-DD')
FormatISO(dt) == Pad(dt.year, 4) \o <<"-">> \o Pad(dt.month, 2) \o <<"-">> \o Pad(dt.date, 2)

ToISO(s) == FormatISO(ParseDDMMYYYY(s))

(***************************************************************************)
(* The inbound messages of the model: who sends, and what text.            *)
(***************************************************************************)
Identities == {"whatsapp:+51911", "whatsapp:+51922"}

\* from.replace('whatsapp:', '')
Phone(from) == IF from = "whatsapp:+51911" THEN "+51911" ELSE "+51922"

D20 == <<"2", "0", "/", "1", "0", "/", "2", "0", "2", "5">>

D23 == <<"2", "3", "/", "1", "0", "/", "2", "0", "2", "5">>

D25 == <<"2", "5", "/", "1", "0", "/", "2", "0", "2", "5">>

\* a day that September does not have
D31Sep == <<"3", "1", "/", "0", "9", "/", "2", "0", "2", "5">>

D19 == <<"1", "9", "/", "1", "0", "/", "2", "0", "2", "5">>

\* the texts a guest sends (req.body.Body)
Bodies ==
  << <<" ", "H", "o", "l", "a", " ">>,
     <<"1", " ">>,
     <<"2">>,
     <<"h", "e", "l", "l", "o">>,
     D20 \o <<" ", "-", " ">> \o D23,
     <<"d", "e", "l", " ">> \o D23 \o <<"-">> \o D25 \o <<" ">>,
     D31Sep \o <<" ", "-", " ", " ">> \o D19 >>

BodyIds == 1..Len(Bodies)

NoDate == <<>>

\* what the first lines of the handler compute from each text
Parsed ==
  [b \in BodyIds |->
     LET incomingMsg == trim(Bodies[b])
         match == RegexMatch(incomingMsg)
     IN [incomingMsg |-> incomingMsg,
         msg |-> toLowerCase(incomingMsg),
         match |-> match,
         startDate |-> IF match = NoMatch THEN NoDate ELSE ToISO(match[1]),
         endDate |-> IF match = NoMatch THEN NoDate ELSE ToISO(match[2])]]

\* const incomingMsg = req.body.Body?.trim() || ''
IncomingMsg(b) == Parsed[b].incomingMsg

\* const msg = incomingMsg.toLowerCase()
Msg(b) == Parsed[b].msg

\* const match = incomingMsg.match(regex)
Match(b) == Parsed[b].match

\* const startDate = dayjs(match[1], 'DD/MM/YYYY').format('YYYY-MM-DD')
StartDate(b) == Parsed[b].startDate

\* const endDate = dayjs(match[2], 'DD/MM/YYYY').format('YYYY-MM-DD')
EndDate(b) == Parsed[b].endDate

Hola == <<"h", "o", "l", "a">>

Menu == <<"m", "e", "n", "u">>

(***************************************************************************)
(* State.                                                                  *)
(***************************************************************************)
VARIABLES
  sessions,   \* const sessions = {}: identity -> {step}, only the keys present
  reservas,   \* the documents of db.collection('reservas'), in creation order
  ftp,        \* the files of the FTP directory /qr: name -> content
  reqs,       \* the invocations of the handler that are suspended at an await:
              \* a bag of frames (the local variables, and what was done so far)
  last,       \* the frame of the invocation that returned or threw in the last
              \* step, NoReq otherwise: a finished frame is garbage after that
  nreq        \* number of inbound messages received so far

vars == <<sessions, reservas, ftp, reqs, last, nreq>>

roomId == "1"

NoUrl == <<>>

\* the frame of an invocation before its first statement
NewReq ==
  [pc |-> "start", branch |-> "", from |-> "", saw |-> "none", sawObj |-> 0,
   cmd |-> FALSE,
   matched |-> FALSE,
   startDate |-> NoDate, endDate |-> NoDate, available |-> "unknown",
   reads |-> 0, adds |-> 0, refId |-> 0, pdfUrl |-> NoUrl, pending |-> "",
   replies |-> <<>>, status |-> "none", at |-> ""]

NoReq == NewReq

\* the awaits of the handler an invocation can be suspended at
AwaitPcs ==
  {"send_invalid", "query", "send_decline", "add", "qr", "upload_qr", "pdf",
   "upload_pdf", "send_confirm", "send_menu", "send_prompt", "send_option",
   "openai", "send_ai", "send_sorry"}

InFlight == BagToSet(reqs)

\* sessions[from]?.step
StepOf(from) == IF from \in DOMAIN sessions THEN sessions[from].step ELSE "none"

\* the object sessions[from] refers to, 0 for undefined
ObjOf(from) == IF from \in DOMAIN sessions THEN sessions[from].obj ELSE 0

\* the whole map cleared instead of one key
DeleteAllSessions(from) == [k \in {} |-> sessions[k]]

\* delete sessions[from]
DeleteSession(from) == [k \in (DOMAIN sessions) \ {from} |-> sessions[k]]

\* a name for a new session object of the identity: the least number that
\* names no object a suspended invocation of that identity has observed
FreshObj(from) ==
  LET used == {q.sawObj : q \in {r \in InFlight : r.from = from}}
  IN CHOOSE n \in 1..(Cardinality(used) + 1) :
       n \notin used /\ \A m \in 1..(n - 1) : m \in used

\* sessions[from] = { step: 'waiting_dates' }: a new object each time
SetSession(from) ==
  [k \in (DOMAIN sessions) \cup {from} |->
     IF k = from THEN [step |-> "waiting_dates", obj |-> FreshObj(from)]
     ELSE sessions[k]]

\* a booking of another room, made through another channel
OtherRoomBooking ==
  [id |-> 1, nombre |-> "Huesped", phone |-> "+51900", fechaEntrada |-> ToISO(D20),
   fechaSalida |-> ToISO(D25), roomId |-> "2", personas |-> 2, origen |-> "Web",
   estado |-> "confirmada"]

\* the collection when the process starts: room 1 has no booking yet
InitialReservas == <<OtherRoomBooking>>

Init ==
  /\ sessions = [k \in {} |-> [step |-> "waiting_dates", obj |-> 0]]
  /\ reservas = InitialReservas
  /\ ftp = [k \in {} |-> <<>>]
  /\ reqs = EmptyBag
  /\ last = NoReq
  /\ nreq = 0

\* invocation q is suspended with frame q2
Suspend(q, q2) ==
  /\ reqs' = (reqs (-) SetToBag({q})) (+) SetToBag({q2})
  /\ last' = NoReq

\* invocation q ends with frame q2
Finish(q, q2) ==
  /\ reqs' = reqs (-) SetToBag({q})
  /\ last' = q2

(***************************************************************************)
(* isRangeAvailable: all bookings of the room are fetched, and the first   *)
(* one whose range meets the requested one makes the range unavailable.    *)
(***************************************************************************)
\* reservasRef.where('roomId', '==', roomId).get()
Snapshot(room) == SelectSeq(reservas, LAMBDA d : d.roomId = room)

\* the test with <= and >= : half-open ranges, touching ranges do not conflict
ConflictsHalfOpen(startDate, endDate, data) ==
  ~(~StrGreater(endDate, data.fechaEntrada) \/ ~StrLess(startDate, data.fechaSalida))

\* !(endDate < data.fechaEntrada || startDate > data.fechaSalida)
Conflicts(startDate, endDate, data) ==
  ~(StrLess(endDate, data.fechaEntrada) \/ StrGreater(startDate, data.fechaSalida))

\* for (let doc of snapshot.docs) { if (...) return { available: false } }
RECURSIVE ScanDocs(_, _, _)
ScanDocs(docs, startDate, endDate) ==
  IF docs = <<>> THEN TRUE
  ELSE IF Conflicts(startDate, endDate, Head(docs)) THEN FALSE
  ELSE ScanDocs(Tail(docs), startDate, endDate)

isRangeAvailable(room, startDate, endDate) ==
  ScanDocs(Snapshot(room), startDate, endDate)

(***************************************************************************)
(* What the pipeline builds.                                               *)
(***************************************************************************)
\* const reserva = {...}; the id is the one add() assigns
Reserva(from, startDate, endDate, id) ==
  [id |-> id, nombre |-> "Huesped WhatsApp", phone |-> Phone(from),
   fechaEntrada |-> startDate, fechaSalida |-> endDate, roomId |-> roomId,
   personas |-> 1, origen |-> "WhatsApp", estado |-> "confirmada"]

\* a file name that does not carry the booking's id
FilenameWithoutId(id, ext) == <<"reserva-", 0, ext>>

\* `reserva-${ref.id}.png`, `reserva-${ref.id}.pdf`
Filename(id, ext) == <<"reserva-", id, ext>>

\* `https://duomoholding.com/qr/${filename}`
UrlOf(filename) == <<"https://duomoholding.com/qr/">> \o filename

\* the payload of the QR code
QrData(q) ==
  [kind |-> "qr", id |-> q.refId, checkin |-> <<q.startDate, q.endDate>>,
   room |-> roomId]

\* the document generarPDFReserva renders
PdfOf(q) ==
  [kind |-> "pdf", id |-> q.refId, nombre |-> "Huesped WhatsApp",
   fechas |-> <<q.startDate, q.endDate>>, personas |-> 1, qr |-> QrData(q)]

\* client.uploadFrom(stream, filename) in /qr: an existing file is replaced
Upload(filename, content) ==
  [k \in (DOMAIN ftp) \cup {filename} |-> IF k = filename THEN content ELSE ftp[k]]

\* twilioClient.messages.create(opts), acknowledged
Sent(q, kind, mediaUrl) ==
  [q EXCEPT !.replies =
     Append(q.replies, [to |-> q.from, kind |-> kind, id |-> q.refId, media |-> mediaUrl])]

\* res.status(200).end()
Respond200(q) == [q EXCEPT !.status = "200", !.pc = "done"]

(***************************************************************************)
(* POST /whatsapp, from its entry to its first await.                      *)
(***************************************************************************)
\* msg is one of the texts the menu part of the handler compares it with
IsCommand(msg) == msg \in {Hola, Menu, <<"1">>, <<"2">>, <<"3">>, <<"4">>}

\* the static reply of option 2, 3 or 4
OptionReply(msg) ==
  IF msg = <<"2">> THEN "tours" ELSE IF msg = <<"3">> THEN "offer" ELSE "advisor"

\* the test of the session left out: a text with a date range is handled as
\* one in every state
DispatchAnyState(from, b) ==
  LET q == [NewReq EXCEPT !.from = from, !.saw = StepOf(from),
                          !.sawObj = ObjOf(from),
                          !.cmd = IsCommand(Msg(b))]
      msg == Msg(b)
  IN IF Match(b) # NoMatch
     THEN [q EXCEPT !.branch = "dates", !.matched = TRUE,
                    !.startDate = StartDate(b),
                    !.endDate = EndDate(b), !.pc = "query"]
     ELSE IF StepOf(from) = "waiting_dates"
          THEN [q EXCEPT !.branch = "dates", !.pc = "send_invalid"]
     ELSE IF msg = Hola \/ msg = Menu
          THEN [q EXCEPT !.branch = "menu", !.pc = "send_menu"]
     ELSE IF msg = <<"1">>
          THEN [q EXCEPT !.branch = "reserve", !.pc = "send_prompt"]
     ELSE IF msg \in {<<"2">>, <<"3">>, <<"4">>}
          THEN [q EXCEPT !.branch = "option", !.pc = "send_option",
                         !.pending = OptionReply(msg)]
     ELSE [q EXCEPT !.branch = "fallback", !.pc = "openai"]

\* the branch the handler takes, as the frame it is suspended with
Dispatch(from, b) ==
  LET q == [NewReq EXCEPT !.from = from, !.saw = StepOf(from),
                          !.sawObj = ObjOf(from),
                          !.cmd = IsCommand(Msg(b))]
      match == Match(b)
      msg == Msg(b)
  IN IF StepOf(from) = "waiting_dates"
     THEN IF match = NoMatch
          THEN [q EXCEPT !.branch = "dates", !.pc = "send_invalid"]
          ELSE [q EXCEPT !.branch = "dates", !.matched = TRUE,
                         !.startDate = StartDate(b),
                         !.endDate = EndDate(b), !.pc = "query"]
     ELSE IF msg = Hola \/ msg = Menu
          THEN [q EXCEPT !.branch = "menu", !.pc = "send_menu"]
     ELSE IF msg = <<"1">>
          THEN [q EXCEPT !.branch = "reserve", !.pc = "send_prompt"]
     ELSE IF msg \in {<<"2">>, <<"3">>, <<"4">>}
          THEN [q EXCEPT !.branch = "option", !.pc = "send_option",
                         !.pending = OptionReply(msg)]
     ELSE [q EXCEPT !.branch = "fallback", !.pc = "openai"]

\* the assignment to sessions[from] left out
SessionsNotSet(from, b) == sessions

\* the greeting handled in every state: it takes the identity back to the menu
SessionsResetByGreeting(from, b) ==
  IF Msg(b) \in {Hola, Menu} THEN DeleteSession(from)
  ELSE IF Dispatch(from, b).pc = "send_prompt" THEN SetSession(from)
  ELSE sessions

\* sessions[from] = { step: 'waiting_dates' } of the branch msg === '1'
SessionsAfterDispatch(from, b) ==
  IF Dispatch(from, b).pc = "send_prompt" THEN SetSession(from) ELSE sessions

\* the handler is invoked with a message and runs to its first await
Invoke(from, b) ==
  /\ reqs' = reqs (+) SetToBag({Dispatch(from, b)})
  /\ last' = NoReq
  /\ sessions' = SessionsAfterDispatch(from, b)
  /\ nreq' = nreq + 1
  /\ UNCHANGED <<reservas, ftp>>

Receive(from, b) ==
  /\ nreq < MaxReqs
  /\ BagCardinality(reqs) < MaxInFlight
  /\ Invoke(from, b)

(***************************************************************************)
(* The waiting_dates branch, one action per await that completes.          *)
(***************************************************************************)
\* the early return left out: the handler falls through to the tail of the branch
SendInvalidFallsThrough(q) ==
  /\ q.pc = "send_invalid"
  /\ Finish(q, Respond200(Sent(q, "invalid", NoUrl)))
  /\ sessions' = DeleteSession(q.from)
  /\ UNCHANGED <<reservas, ftp, nreq>>

\* await sendMessage(from, 'Formato invalido...'); return res.status(200).end()
SendInvalidDone(q) ==
  /\ q.pc = "send_invalid"
  /\ Finish(q, Respond200(Sent(q, "invalid", NoUrl)))
  /\ UNCHANGED <<sessions, reservas, ftp, nreq>>

\* the test of available left out: the pipeline runs in both cases
AfterQueryUnchecked(q, available) ==
  [q EXCEPT !.available = IF available THEN "yes" ELSE "no",
            !.reads = q.reads + 1,
            !.pc = "add"]

\* the frame after const { available } = await isRangeAvailable(...)
AfterQuery(q, available) ==
  [q EXCEPT !.available = IF available THEN "yes" ELSE "no",
            !.reads = q.reads + 1,
            !.pc = IF available THEN "add" ELSE "send_decline"]

QueryDone(q) ==
  /\ q.pc = "query"
  /\ Suspend(q, AfterQuery(q, isRangeAvailable(roomId, q.startDate, q.endDate)))
  /\ UNCHANGED <<sessions, reservas, ftp, nreq>>

\* the tail of the branch: delete sessions[from]; return res.status(200).end()
CloseSession(from) == DeleteSession(from)

\* await sendMessage(from, 'No disponible ...'), then the tail of the branch
SendDeclineDone(q) ==
  /\ q.pc = "send_decline"
  /\ Finish(q, Respond200(Sent(q, "decline", NoUrl)))
  /\ sessions' = CloseSession(q.from)
  /\ UNCHANGED <<reservas, ftp, nreq>>

\* what add(reserva) makes of the collection
Added(q) ==
  Append(reservas, Reserva(q.from, q.startDate, q.endDate, Len(reservas) + 1))

\* const ref = await db.collection('reservas').add(reserva)
AddDone(q) ==
  /\ q.pc = "add"
  /\ reservas' = Added(q)
  /\ Suspend(q, [q EXCEPT !.refId = Len(reservas) + 1, !.adds = q.adds + 1, !.pc = "qr"])
  /\ UNCHANGED <<sessions, ftp, nreq>>

\* const qrBuffer = await QRCode.toBuffer(qrData)
QRDone(q) ==
  /\ q.pc = "qr"
  /\ Suspend(q, [q EXCEPT !.pc = "upload_qr"])
  /\ UNCHANGED <<sessions, reservas, ftp, nreq>>

\* the upload of the code image left out
UploadQRSkipped(q) ==
  /\ q.pc = "upload_qr"
  /\ Suspend(q, [q EXCEPT !.pc = "pdf"])
  /\ UNCHANGED <<sessions, reservas, ftp, nreq>>

\* await uploadQRtoFTP(qrBuffer, qrFilename)
UploadQRDone(q) ==
  /\ q.pc = "upload_qr"
  /\ ftp' = Upload(Filename(q.refId, ".png"), QrData(q))
  /\ Suspend(q, [q EXCEPT !.pc = "pdf"])
  /\ UNCHANGED <<sessions, reservas, nreq>>

\* the artifact steps started over when the document is rendered
PDFStartsOver(q) ==
  /\ q.pc = "pdf"
  /\ Suspend(q, [q EXCEPT !.pc = "qr"])
  /\ UNCHANGED <<sessions, reservas, ftp, nreq>>

\* const pdfBuffer = await generarPDFReserva({...}, qrBuffer)
PDFDone(q) ==
  /\ q.pc = "pdf"
  /\ Suspend(q, [q EXCEPT !.pc = "upload_pdf"])
  /\ UNCHANGED <<sessions, reservas, ftp, nreq>>

\* the upload of the document not awaited: the confirmation goes out first
UploadPDFNotAwaited(q) ==
  /\ q.pc = "upload_pdf"
  /\ Suspend(q, [q EXCEPT !.pdfUrl = UrlOf(Filename(q.refId, ".pdf")),
                          !.pc = "send_confirm"])
  /\ UNCHANGED <<sessions, reservas, ftp, nreq>>

\* const pdfUrl = await uploadPDFtoFTP(pdfBuffer, pdfFilename)
UploadPDFDone(q) ==
  /\ q.pc = "upload_pdf"
  /\ ftp' = Upload(Filename(q.refId, ".pdf"), PdfOf(q))
  /\ Suspend(q, [q EXCEPT !.pdfUrl = UrlOf(Filename(q.refId, ".pdf")),
                          !.pc = "send_confirm"])
  /\ UNCHANGED <<sessions, reservas, nreq>>

\* await sendMessage(from, 'Reserva confirmada ...', pdfUrl), then the tail
SendConfirmDone(q) ==
  /\ q.pc = "send_confirm"
  /\ Finish(q, Respond200(Sent(q, "confirm", q.pdfUrl)))
  /\ sessions' = CloseSession(q.from)
  /\ UNCHANGED <<reservas, ftp, nreq>>

(***************************************************************************)
(* The menu, the options and the free-text fallback.                       *)
(***************************************************************************)
\* await sendMessage(from, menu); return res.status(200).end()
SendMenuDone(q) ==
  /\ q.pc = "send_menu"
  /\ Finish(q, Respond200(Sent(q, "menu", NoUrl)))
  /\ UNCHANGED <<sessions, reservas, ftp, nreq>>

\* msg === '1': await sendMessage(from, prompt); res.status(200).end()
SendPromptDone(q) ==
  /\ q.pc = "send_prompt"
  /\ Finish(q, Respond200(Sent(q, "prompt", NoUrl)))
  /\ UNCHANGED <<sessions, reservas, ftp, nreq>>

\* msg === '2', '3' or '4': await sendMessage(from, static reply)
SendOptionDone(q) ==
  /\ q.pc = "send_option"
  /\ Finish(q, Respond200(Sent(q, q.pending, NoUrl)))
  /\ UNCHANGED <<sessions, reservas, ftp, nreq>>

\* const completion = await openai.chat.completions.create(...)
OpenAIDone(q) ==
  /\ q.pc = "openai"
  /\ Suspend(q, [q EXCEPT !.pc = "send_ai"])
  /\ UNCHANGED <<sessions, reservas, ftp, nreq>>

\* await sendMessage(from, ai answer), inside the try; res.status(200).end()
SendAIDone(q) ==
  /\ q.pc = "send_ai"
  /\ Finish(q, Respond200(Sent(q, "ai", NoUrl)))
  /\ UNCHANGED <<sessions, reservas, ftp, nreq>>

\* the try block left out: the failure leaves the handler
OpenAIFailsUncaught(q) ==
  /\ q.pc \in {"openai", "send_ai"}
  /\ Finish(q, [q EXCEPT !.pc = "failed", !.at = q.pc])
  /\ UNCHANGED <<sessions, reservas, ftp, nreq>>

\* catch (err): the completion or the send of its answer failed
OpenAIFails(q) ==
  /\ q.pc \in {"openai", "send_ai"}
  /\ Suspend(q, [q EXCEPT !.pc = "send_sorry"])
  /\ UNCHANGED <<sessions, reservas, ftp, nreq>>

\* await sendMessage(from, 'Lo siento ...') of the catch; res.status(200).end()
SendSorryDone(q) ==
  /\ q.pc = "send_sorry"
  /\ Finish(q, Respond200(Sent(q, "sorry", NoUrl)))
  /\ UNCHANGED <<sessions, reservas, ftp, nreq>>

(***************************************************************************)
(* A collaborator call rejects outside the one try block of the handler.   *)
(* Nothing catches it: the async handler's promise rejects, the rest of    *)
(* the handler is skipped, and the request gets either no response at all  *)
(* (the router ignores the promise) or the router's error response.        *)
(***************************************************************************)
UncaughtPcs == AwaitPcs \ {"openai", "send_ai"}

\* the frame of an invocation whose await threw
Rejected(q, status) == [q EXCEPT !.pc = "failed", !.status = status, !.at = q.pc]

\* the session entry removed in a finally block
CollaboratorFailsClearsSession(q) ==
  /\ q.pc \in UncaughtPcs
  /\ \E status \in {"none", "500"} : Finish(q, Rejected(q, status))
  /\ sessions' = DeleteSession(q.from)
  /\ UNCHANGED <<reservas, ftp, nreq>>

CollaboratorFails(q) ==
  /\ q.pc \in UncaughtPcs
  /\ \E status \in {"none", "500"} : Finish(q, Rejected(q, status))
  /\ UNCHANGED <<sessions, reservas, ftp, nreq>>

\* the frames of the state: those suspended, and the one that just ended
Frames == InFlight \cup {last}

(***************************************************************************)
(* Specifications.                                                         *)
(***************************************************************************)
\* an await of some suspended invocation completes or rejects
Resume ==
  \/ \E q \in InFlight : SendInvalidDone(q)
  \/ \E q \in InFlight : QueryDone(q)
  \/ \E q \in InFlight : SendDeclineDone(q)
  \/ \E q \in InFlight : AddDone(q)
  \/ \E q \in InFlight : QRDone(q)
  \/ \E q \in InFlight : UploadQRDone(q)
  \/ \E q \in InFlight : PDFDone(q)
  \/ \E q \in InFlight : UploadPDFDone(q)
  \/ \E q \in InFlight : SendConfirmDone(q)
  \/ \E q \in InFlight : SendMenuDone(q)
  \/ \E q \in InFlight : SendPromptDone(q)
  \/ \E q \in InFlight : SendOptionDone(q)
  \/ \E q \in InFlight : OpenAIDone(q)
  \/ \E q \in InFlight : SendAIDone(q)
  \/ \E q \in InFlight : OpenAIFails(q)
  \/ \E q \in InFlight : SendSorryDone(q)
  \/ \E q \in InFlight : CollaboratorFails(q)

\* requests arrive at any time and interleave at their awaits
Next ==
  \/ \E from \in Identities, b \in BodyIds : Receive(from, b)
  \/ Resume

Spec == Init /\ [][Next]_vars

\* the ids add() can assign in a run
BookingIds == (Len(InitialReservas) + 1)..(Len(InitialReservas) + MaxReqs)

\* the await that the run of booking id is suspended at settles
RunStep(id) ==
  \E q \in InFlight :
    /\ q.refId = id
    /\ \/ QRDone(q) \/ UploadQRDone(q) \/ PDFDone(q) \/ UploadPDFDone(q)
       \/ SendConfirmDone(q) \/ CollaboratorFails(q)

\* the texts of the runs checked for termination: the greeting, the options,
\* a free text and one date range
FairBodyIds == 1..5

NextFair ==
  \/ \E from \in Identities, b \in FairBodyIds : Receive(from, b)
  \/ Resume

\* every collaborator call of a run that has its booking settles: it resolves
\* or it rejects
SpecFair ==
  Init /\ [][NextFair]_vars /\ \A id \in BookingIds : WF_vars(RunStep(id))

\* one guest sends up to MaxGuestReqs messages, which interleave
ReceiveGuest(b) ==
  /\ nreq < MaxGuestReqs
  /\ BagCardinality(reqs) < MaxInFlight
  /\ Invoke("whatsapp:+51911", b)

NextGuest ==
  \/ \E b \in BodyIds : ReceiveGuest(b)
  \/ Resume

SpecGuest == Init /\ [][NextGuest]_vars

\* a message arrives only when no request is in flight
ReceiveSeq(from, b) ==
  /\ nreq < MaxSeqReqs
  /\ reqs = EmptyBag
  /\ Invoke(from, b)

NextSeq ==
  \/ \E from \in Identities, b \in BodyIds : ReceiveSeq(from, b)
  \/ Resume

SpecSeq == Init /\ [][NextSeq]_vars

(***************************************************************************)
(* Properties.                                                             *)
(***************************************************************************)
\* the calendar date an ISO text YYYY-MM-DD names, as the number YYYYMMDD
ChronoValue(iso) == 10000 * Num4(iso, 1) + 100 * Num2(iso, 6) + Num2(iso, 9)

\* the closed-interval test on calendar dates: [s, e] meets [s2, e2]
RangesConflict(s, e, s2, e2) ==
  ~(ChronoValue(e) < ChronoValue(s2) \/ ChronoValue(s) > ChronoValue(e2))

\* C1: the persisted bookings of one room are pairwise non-overlapping (closed
\* intervals), in every reachable state, also when requests interleave: no
\* booking is created for a range that conflicts with a persisted booking of
\* its room.
NoDoubleBooking ==
  \A i, j \in 1..Len(reservas) :
    (i < j /\ reservas[i].roomId = reservas[j].roomId)
      => ~RangesConflict(reservas[j].fechaEntrada, reservas[j].fechaSalida,
                         reservas[i].fechaEntrada, reservas[i].fechaSalida)

\* the invocation that just returned handled a text that matched the pattern
\* while its sender was in waiting_dates
DatesDone == last.pc = "done" /\ last.branch = "dates" /\ last.matched

\* a persisted booking of the room, other than the one of id own, meets [s, e]
OtherBookingConflicts(room, s, e, own) ==
  \E i \in 1..Len(reservas) :
    /\ i # own
    /\ reservas[i].roomId = room
    /\ RangesConflict(s, e, reservas[i].fechaEntrada, reservas[i].fechaSalida)

\* what a full run of the pipeline for frame q leaves behind
FullPipeline(q) ==
  /\ q.adds = 1
  /\ q.refId = Len(reservas)
  /\ reservas[q.refId].id = q.refId
  /\ reservas[q.refId].estado = "confirmada"
  /\ reservas[q.refId].roomId = roomId
  /\ reservas[q.refId].phone = Phone(q.from)
  /\ reservas[q.refId].fechaEntrada = q.startDate
  /\ reservas[q.refId].fechaSalida = q.endDate
  /\ <<"reserva-", q.refId, ".png">> \in DOMAIN ftp
  /\ ftp[<<"reserva-", q.refId, ".png">>].kind = "qr"
  /\ ftp[<<"reserva-", q.refId, ".png">>].id = q.refId
  /\ <<"reserva-", q.refId, ".pdf">> \in DOMAIN ftp
  /\ ftp[<<"reserva-", q.refId, ".pdf">>].kind = "pdf"
  /\ ftp[<<"reserva-", q.refId, ".pdf">>].id = q.refId
  /\ q.replies =
       << [to |-> q.from, kind |-> "confirm", id |-> q.refId,
           media |-> <<"https://duomoholding.com/qr/", "reserva-", q.refId, ".pdf">>] >>
  /\ q.from \notin DOMAIN sessions
  /\ q.status = "200"

\* C2: messages handled one at a time; the sender is in waiting_dates and the
\* message matches the date-range pattern and its range meets no persisted
\* booking of the room: when the handler returns, it has created exactly one
\* booking (the newest one, status confirmada, for the parsed range), both the
\* code image and the document are stored under names made of that booking's
\* id, exactly one reply was sent, the confirmation with the stored
\* document's URL, and the sender has no session entry.
PipelineRunsOnce ==
  (DatesDone /\ ~OtherBookingConflicts(roomId, last.startDate, last.endDate, last.refId))
    => (last.saw = "waiting_dates" /\ last.available = "yes" /\ FullPipeline(last))

\* a date-range message was handled to its end and the range was available
PipelineRunsOnceWitness ==
  DatesDone /\ last.available = "yes" /\ Len(reservas) > Len(InitialReservas)

\* the frame Receive(from, b) adds to the suspended invocations
Arrived(q, from) ==
  /\ q.from = from
  /\ CopiesIn(q, reqs') = CopiesIn(q, reqs) + 1

\* a step of the suspended invocation q of the kind that ends it
Ends(q) ==
  \/ SendInvalidDone(q) \/ SendDeclineDone(q) \/ SendConfirmDone(q)
  \/ SendMenuDone(q) \/ SendPromptDone(q) \/ SendOptionDone(q)
  \/ SendAIDone(q) \/ SendSorryDone(q) \/ CollaboratorFails(q)

ReserveStep ==
  \A from \in Identities, b \in BodyIds :
    (nreq' # nreq /\ StepOf(from) = "none" /\ Msg(b) = <<"1">> /\ Receive(from, b))
      => /\ from \in DOMAIN sessions'
         /\ sessions'[from].step = "waiting_dates"
         /\ reservas' = reservas
         /\ ftp' = ftp
         /\ \E q \in BagToSet(reqs') :
              Arrived(q, from) /\ q.branch = "reserve" /\ q.pc = "send_prompt"

ReserveInv ==
  \A q \in Frames :
    q.branch = "reserve"
      => /\ q.saw = "none"
         /\ q.reads = 0
         /\ q.adds = 0
         /\ q.refId = 0
         /\ q.pc \in {"send_prompt", "done", "failed"}
         /\ q.pc = "done"
              => /\ q.replies = << [to |-> q.from, kind |-> "prompt", id |-> 0,
                                    media |-> NoUrl] >>
                 /\ q.status = "200"

ReserveFrame ==
  \A q \in InFlight : (q.branch = "reserve" /\ Ends(q)) => UNCHANGED <<reservas, ftp>>

\* C3: a message whose trimmed lowercase text is "1", from an identity with no
\* session entry, sets sessions[from].step to waiting_dates in the step that
\* receives it, is answered (when the handler returns) with exactly the
\* date-format prompt, and neither that step nor any later step of the request
\* creates a booking or stores an artifact.
ReserveOpensSession == [][ReserveStep /\ ReserveFrame]_vars /\ []ReserveInv

\* such a request returned and its sender is in waiting_dates
ReserveOpensSessionWitness ==
  /\ last.branch = "reserve"
  /\ last.pc = "done"
  /\ StepOf(last.from) = "waiting_dates"

InvalidStep ==
  \A from \in Identities, b \in BodyIds :
    (nreq' # nreq /\ StepOf(from) = "waiting_dates"
       /\ Match(b) = NoMatch /\ Receive(from, b))
      => /\ UNCHANGED <<sessions, reservas, ftp>>
         /\ \E q \in BagToSet(reqs') :
              /\ Arrived(q, from)
              /\ q.branch = "dates"
              /\ ~q.matched
              /\ q.pc = "send_invalid"

InvalidFrame ==
  \A q \in InFlight :
    (q.branch = "dates" /\ ~q.matched /\ Ends(q)) => UNCHANGED <<sessions, reservas, ftp>>

InvalidInv ==
  \A q \in Frames :
    (q.branch = "dates" /\ ~q.matched)
      => /\ q.saw = "waiting_dates"
         /\ q.reads = 0
         /\ q.adds = 0
         /\ q.refId = 0
         /\ q.pc \in {"send_invalid", "done", "failed"}
         /\ q.pc = "done"
              => /\ q.replies = << [to |-> q.from, kind |-> "invalid", id |-> 0,
                                    media |-> NoUrl] >>
                 /\ q.status = "200"

\* C4: a message without the date-range pattern, from an identity in
\* waiting_dates, is a parse failure: no step of the request changes the
\* sessions (the sender stays in waiting_dates as far as this request goes),
\* the bookings are neither queried nor written, no artifact is stored, and
\* when the handler returns it has sent exactly the format-error reply.
ParseFailureKeepsSession == [][InvalidStep /\ InvalidFrame]_vars /\ []InvalidInv

\* such a request returned and its sender is still in waiting_dates
ParseFailureWitness ==
  /\ last.branch = "dates"
  /\ ~last.matched
  /\ last.pc = "done"
  /\ StepOf(last.from) = "waiting_dates"

DeclineInv ==
  \A q \in Frames :
    q.available = "no"
      => /\ q.adds = 0
         /\ q.refId = 0
         /\ q.pc \in {"send_decline", "done", "failed"}
         /\ q.pc = "done"
              => /\ q.replies = << [to |-> q.from, kind |-> "decline", id |-> 0,
                                    media |-> NoUrl] >>
                 /\ q.status = "200"
                 /\ q.from \notin DOMAIN sessions

DeclineFrame ==
  \A q \in InFlight : (q.available = "no" /\ Ends(q)) => UNCHANGED <<reservas, ftp>>

\* C5: a request whose availability check returned false never invokes the
\* pipeline: it creates no booking and stores no code image and no document in
\* any of its steps, and when the handler returns it has sent exactly the
\* decline reply and has removed the sender's session entry.
DeclineSkipsPipeline == [][DeclineFrame]_vars /\ []DeclineInv

\* a declined request returned
DeclineWitness == last.available = "no" /\ last.pc = "done"

\* C6: isRangeAvailable(room, s, e) is false if and only if some persisted
\* booking [s2, e2] of that room satisfies not (e < s2 or s > e2), the dates
\* compared as calendar dates; so touching ranges conflict and a room without
\* bookings is available.  Checked for every pending availability query, on
\* the bookings persisted at that moment, for both rooms.
AvailabilityIsClosedIntervalTest ==
  \A q \in InFlight :
    q.pc = "query"
      => \A room \in {"1", "2"} :
           isRangeAvailable(room, q.startDate, q.endDate)
             <=> ~OtherBookingConflicts(room, q.startDate, q.endDate, 0)

\* a query is pending for a range that ends on the day a booking of the room
\* starts, and is answered with not available
TouchingRangesWitness ==
  \E q \in InFlight :
    /\ q.pc = "query"
    /\ \E i \in 1..Len(reservas) :
         /\ reservas[i].roomId = roomId
         /\ q.endDate = reservas[i].fechaEntrada
         /\ q.startDate # reservas[i].fechaEntrada
    /\ ~isRangeAvailable(roomId, q.startDate, q.endDate)

\* the invocation that just ended threw while handling a date-range message
DatesFailed == last.pc = "failed" /\ last.branch = "dates" /\ last.matched

\* C7: whenever a collaborator call fails during the handling of a date-range
\* message, the failure is caught and a generic failure reply is sent to the
\* sender: every such run has a failure reply.
FailureIsReported ==
  DatesFailed
    => \E i \in 1..Len(last.replies) :
         last.replies[i].kind = "failure" /\ last.replies[i].to = last.from

\* the invocation that just ended threw after it had created its booking
OrphanedBooking == last.pc = "failed" /\ last.refId # 0

\* the booking of frame q is persisted as it was created
BookingPersisted(q) ==
  /\ q.refId \in 1..Len(reservas)
  /\ reservas[q.refId].id = q.refId
  /\ reservas[q.refId].estado = "confirmada"
  /\ reservas[q.refId].roomId = roomId
  /\ reservas[q.refId].fechaEntrada = q.startDate
  /\ reservas[q.refId].fechaSalida = q.endDate

NoConfirmation(q) == \A i \in 1..Len(q.replies) : q.replies[i].kind # "confirm"

\* C8 as stated: if a step after the creation of the booking fails, the booking
\* stays persisted with status confirmada, no artifact is stored for it, and
\* the guest gets no confirmation.
OrphanHasNoArtifact ==
  OrphanedBooking
    => /\ BookingPersisted(last)
       /\ \A ext \in {".png", ".pdf"} : <<"reserva-", last.refId, ext>> \notin DOMAIN ftp
       /\ NoConfirmation(last)

\* no booking and no stored file is ever removed or changed
NothingRolledBack ==
  /\ \A i \in 1..Len(reservas) : i <= Len(reservas') /\ reservas'[i] = reservas[i]
  /\ \A f \in DOMAIN ftp : f \in DOMAIN ftp' /\ ftp'[f] = ftp[f]

OrphanInv ==
  OrphanedBooking
    => /\ BookingPersisted(last)
       /\ last.replies = <<>>
       /\ last.at \in {"qr", "upload_qr", "pdf", "upload_pdf", "send_confirm"}
       /\ <<"reserva-", last.refId, ".png">> \in DOMAIN ftp
            <=> last.at \in {"pdf", "upload_pdf", "send_confirm"}
       /\ <<"reserva-", last.refId, ".pdf">> \in DOMAIN ftp
            <=> last.at = "send_confirm"

\* C8, amended: if a step after the creation of the booking fails, the booking
\* stays persisted with status confirmada (no booking is ever removed or
\* changed), the guest gets no confirmation, and the artifacts stored by the
\* steps that completed before the failing one stay stored: the code image
\* when the failure is at the rendering of the document or later, the
\* document too when the failure is at the send; no later step stores any.
OrphanKeepsStoredArtifacts == [][NothingRolledBack]_vars /\ []OrphanInv

\* the rendering of the document failed after the code image was stored
OrphanWitness ==
  /\ OrphanedBooking
  /\ last.at = "pdf"
  /\ <<"reserva-", last.refId, ".png">> \in DOMAIN ftp

\* C9: every inbound message, on every path, ends with the response 200.
AlwaysResponds200 == last.pc \in {"done", "failed"} => last.status = "200"

\* C10: the state machine is total: whatever the session state and the text,
\* the handling of a message ends with exactly one reply to the sender, and
\* every session entry has the step waiting_dates.
StateMachineTotal ==
  /\ \A id \in DOMAIN sessions : sessions[id].step = "waiting_dates"
  /\ last.pc \in {"done", "failed"}
       => Len(last.replies) = 1 /\ last.replies[1].to = last.from

\* what holds of C10: the part about the session entries, and one reply from
\* every invocation that returns
TotalWhenNothingRejects ==
  /\ \A id \in DOMAIN sessions : sessions[id].step = "waiting_dates"
  /\ last.pc = "done" => Len(last.replies) = 1 /\ last.replies[1].to = last.from

\* the branches of a message other than "1" from an identity without entry
IdleBranches == {"menu", "option", "fallback"}

IdleStep ==
  \A from \in Identities, b \in BodyIds :
    (nreq' # nreq /\ StepOf(from) = "none" /\ Msg(b) # <<"1">> /\ Receive(from, b))
      => /\ UNCHANGED <<sessions, reservas, ftp>>
         /\ \E q \in BagToSet(reqs') :
              /\ Arrived(q, from)
              /\ q.branch \in IdleBranches
              /\ q.pc \in {"send_menu", "send_option", "openai"}

\* a step of the suspended invocation q, of any kind
Steps(q) ==
  \/ Ends(q) \/ QueryDone(q) \/ AddDone(q) \/ QRDone(q) \/ UploadQRDone(q)
  \/ PDFDone(q) \/ UploadPDFDone(q) \/ OpenAIDone(q) \/ OpenAIFails(q)

IdleFrame ==
  \A q \in InFlight :
    (q.branch \in IdleBranches /\ Steps(q)) => UNCHANGED <<sessions, reservas, ftp>>

\* the replies the branch of frame q can end with
IdleReplyKinds(q) ==
  IF q.branch = "menu" THEN {"menu"}
  ELSE IF q.branch = "option" THEN {q.pending}
  ELSE {"ai", "sorry"}

IdleInv ==
  \A q \in Frames :
    q.branch \in IdleBranches
      => /\ q.saw = "none"
         /\ q.reads = 0
         /\ q.adds = 0
         /\ q.refId = 0
         /\ q.pc = "done"
              => /\ Len(q.replies) = 1
                 /\ q.replies[1].to = q.from
                 /\ q.replies[1].kind \in IdleReplyKinds(q)
                 /\ q.status = "200"
         \* the only way to end without a reply: the send of the reply rejected
         /\ q.pc = "failed" => q.at \in {"send_menu", "send_option", "send_sorry"}

\* C11: a message other than "1" from an identity without session entry (hola,
\* menu, option 2, 3 or 4, or any other text) creates no session entry and no
\* booking in any of its steps, and is answered with one reply: the handler
\* returns with exactly one reply sent (the apology when the free-text
\* responder failed), and ends otherwise only because the send of that reply
\* was itself rejected.
IdleInputStaysIdle == [][IdleStep /\ IdleFrame]_vars /\ []IdleInv

\* the free-text responder failed, the apology was sent, the sender has no entry
IdleInputWitness ==
  /\ last.branch = "fallback"
  /\ last.pc = "done"
  /\ last.replies[1].kind = "sorry"
  /\ last.from \notin DOMAIN sessions
  /\ Len(reservas) = Len(InitialReservas)

\* frame q ran the pipeline: it observed waiting_dates and created a booking
RanPipeline(q) == q.saw = "waiting_dates" /\ q.adds = 1

\* C12: the messages of one identity are handled one after the other: two
\* requests of one identity that are alive together (suspended, or ended in
\* this step), both received in waiting_dates, never both run the pipeline,
\* so that one session entry yields at most one booking.
OnePipelinePerEntry ==
  \A q1, q2 \in Frames :
    (q1 # q2 /\ q1.from = q2.from /\ RanPipeline(q1)) => ~RanPipeline(q2)

\* the text DD/MM/YYYY names a day of the calendar
InCalendar(s) ==
  /\ Num2(s, 4) \in 1..12
  /\ Num2(s, 1) \in 1..DaysInMonth(Num4(s, 7), Num2(s, 4))

\* text b matches the pattern, with a day or a month that does not exist
OutOfCalendar(b) ==
  /\ Match(b) # NoMatch
  /\ ~InCalendar(Match(b)[1]) \/ ~InCalendar(Match(b)[2])

CalendarStep ==
  \A from \in Identities, b \in BodyIds :
    (nreq' # nreq /\ StepOf(from) = "waiting_dates" /\ OutOfCalendar(b)
       /\ Receive(from, b))
      => /\ UNCHANGED <<sessions, reservas, ftp>>
         /\ \E q \in BagToSet(reqs') :
              Arrived(q, from) /\ ~q.matched /\ q.pc = "send_invalid"

\* C13: a message that matches the pattern with a day or month out of calendar
\* range, received in waiting_dates, is a parse failure: the request goes to
\* the format error, not to the availability check, and the sessions and the
\* bookings are unchanged.
OutOfRangeIsParseFailure == [][CalendarStep]_vars

\* the awaits of the pipeline, in the order of the source
PipelinePcs == <<"add", "qr", "upload_qr", "pdf", "upload_pdf", "send_confirm">>

PipelinePos(pc) == CHOOSE i \in 1..Len(PipelinePcs) : PipelinePcs[i] = pc

InPipeline(q) == \E i \in 1..Len(PipelinePcs) : PipelinePcs[i] = q.pc

HasPng(q) == <<"reserva-", q.refId, ".png">> \in DOMAIN ftp

HasPdf(q) == <<"reserva-", q.refId, ".pdf">> \in DOMAIN ftp

ConfirmReply(q) ==
  [to |-> q.from, kind |-> "confirm", id |-> q.refId,
   media |-> <<"https://duomoholding.com/qr/", "reserva-", q.refId, ".pdf">>]

\* what has and has not happened yet at each point of the pipeline
PipelineInv ==
  \A q \in Frames :
    (InPipeline(q) \/ (q.pc = "done" /\ q.available = "yes"))
      => /\ q.branch = "dates" /\ q.available = "yes"
         /\ q.pc = "add" => (q.refId = 0 /\ q.adds = 0)
         /\ q.pc # "add" => (q.adds = 1 /\ BookingPersisted(q))
         /\ q.pc \in {"qr", "upload_qr"} => (~HasPng(q) /\ ~HasPdf(q))
         /\ q.pc \in {"pdf", "upload_pdf"} => (HasPng(q) /\ ~HasPdf(q))
         /\ q.pc \in {"send_confirm", "done"} => (HasPng(q) /\ HasPdf(q))
         /\ q.pc # "done" => q.replies = <<>>
         /\ q.pc = "done" => q.replies = <<ConfirmReply(q)>>

\* a step of a request in the pipeline: it fails, or it completes exactly the
\* step it was suspended at and starts the next one
PipelineStep ==
  \A q \in InFlight :
    (InPipeline(q) /\ Steps(q))
      => \/ /\ last'.pc = "failed"
            /\ last'.at = q.pc
            /\ UNCHANGED <<sessions, reservas, ftp>>
         \/ /\ q.pc = "send_confirm"
            /\ last' = Respond200([q EXCEPT !.replies = <<ConfirmReply(q)>>])
            /\ sessions' = DeleteSession(q.from)
            /\ UNCHANGED <<reservas, ftp>>
         \/ /\ q.pc # "send_confirm"
            /\ UNCHANGED sessions
            /\ \E q2 \in BagToSet(reqs') :
                 /\ CopiesIn(q2, reqs') = CopiesIn(q2, reqs) + 1
                 /\ q2.from = q.from
                 /\ q2.pc = PipelinePcs[PipelinePos(q.pc) + 1]
                 /\ q2.replies = <<>>
                 /\ q.pc # "add" => q2.refId = q.refId
            /\ q.pc = "add" <=> reservas' # reservas
            /\ q.pc \in {"upload_qr", "upload_pdf"} <=> ftp' # ftp

\* C14: within one run of the pipeline the steps happen in the order persist
\* booking, generate code image, store code image, render document, store
\* document, send confirmation, clear session entry, each one started when the
\* previous one completed: the confirmation is not sent before the document is
\* stored, and the request does not clear the session entry before it has
\* sent the confirmation.
PipelineInOrder == [][PipelineStep]_vars /\ []PipelineInv

\* a run is suspended at the send of the confirmation: both files are stored,
\* nothing was sent yet, and the session entry is still there
PipelineInOrderWitness ==
  \E q \in InFlight :
    /\ q.pc = "send_confirm"
    /\ HasPng(q)
    /\ HasPdf(q)
    /\ q.replies = <<>>
    /\ StepOf(q.from) = "waiting_dates"

\* frame q passed the three guards in front of the pipeline
PassedGuards(q) == q.saw = "waiting_dates" /\ q.matched /\ q.available = "yes"

\* the bookings or the files change only in a pipeline step of such a request
GuardedStep ==
  (reservas' # reservas \/ ftp' # ftp)
    => \E q \in InFlight :
         /\ PassedGuards(q)
         /\ AddDone(q) \/ UploadQRDone(q) \/ UploadPDFDone(q)

GuardedInv ==
  /\ \A q \in Frames :
       /\ (q.adds # 0 \/ q.refId # 0 \/ InPipeline(q)) => PassedGuards(q)
       /\ q.saw = "none" => (q.reads = 0 /\ q.adds = 0 /\ q.refId = 0)
  /\ \A i \in 1..Len(reservas) :
       i > Len(InitialReservas)
         => reservas[i].origen = "WhatsApp" /\ reservas[i].roomId = roomId
  /\ \A f \in DOMAIN ftp : ftp[f].id \in (Len(InitialReservas) + 1)..Len(reservas)

\* C15: a booking is created, and an artifact stored, only by a request that
\* found its sender in waiting_dates, whose text matched the date-range
\* pattern and whose availability check returned true; a request that found
\* its sender without session entry never queries or creates a booking and
\* never stores a file.
BookingOnlyBehindGuards == [][GuardedStep]_vars /\ []GuardedInv

\* a request that passed the guards has just created the first booking
BookingBehindGuardsWitness ==
  \E q \in InFlight :
    /\ q.pc = "qr"
    /\ PassedGuards(q)
    /\ q.refId = Len(InitialReservas) + 1
    /\ Len(reservas) = Len(InitialReservas) + 1

\* a suspended run that has its booking leaves the suspended invocations only
\* by a step of its own
NotAbandoned ==
  \A q \in InFlight :
    (q.refId # 0 /\ CopiesIn(q, reqs') < CopiesIn(q, reqs)) => Steps(q)

\* the run of frame q reached its end: confirmation sent, session entry cleared,
\* request answered
Completed(q) ==
  /\ q.pc = "done"
  /\ q.replies = <<ConfirmReply(q)>>
  /\ q.status = "200"
  /\ q.from \notin DOMAIN sessions

\* the run of booking id is under way
Running(id) == \E q \in InFlight : q.refId = id

\* the run of booking id has just ended
Ended(id) == last.refId = id /\ (Completed(last) \/ last.pc = "failed")

\* the inbound request of a run under way is not answered yet
RequestOpen == \A q \in InFlight : q.status = "none"

\* C16: a run of the pipeline that has persisted its booking, when every
\* collaborator call it awaits settles, eventually reaches its end
\* (confirmation sent and session entry cleared) or fails at one of its steps;
\* no other request takes it out of the suspended invocations, and its
\* inbound request is answered only at its end.
PipelineRunsToEnd ==
  /\ [][NotAbandoned]_vars
  /\ []RequestOpen
  /\ \A id \in BookingIds : Running(id) ~> Ended(id)

\* a run reached its end while another request was in flight
PipelineRunsToEndWitness ==
  /\ last.refId # 0
  /\ Completed(last)
  /\ reqs # EmptyBag

\* the session entry of an identity changes only in a step of the handling of
\* a message of that identity
SessionIsolationStep ==
  \A id \in Identities :
    (<<StepOf(id), ObjOf(id)>>)' # <<StepOf(id), ObjOf(id)>>
      => \/ \E b \in BodyIds : Receive(id, b)
         \/ \E q \in InFlight : q.from = id /\ Steps(q)

\* C17: the handling of a message of identity A never creates, changes or
\* removes the session entry of another identity B, however the requests in
\* flight interleave.
SessionsAreIsolated == [][SessionIsolationStep]_vars

\* a date-range request has removed its sender's entry, and the entry of the
\* other identity is still there
SessionsAreIsolatedWitness ==
  /\ last.pc = "done"
  /\ last.branch = "dates"
  /\ last.matched
  /\ last.from \notin DOMAIN sessions
  /\ \E id \in DOMAIN sessions : id # last.from

\* the awaits of the handling of a text that matched the pattern
MatchedPcs ==
  {"query", "send_decline", "add", "qr", "upload_qr", "pdf", "upload_pdf", "send_confirm"}

\* a step of a request on a matching text: when a call of it rejects, the
\* sessions are as before; the request changes them only in the step in which
\* it returns
FailureKeepsStep ==
  \A q \in InFlight :
    (q.branch = "dates" /\ q.matched /\ Steps(q))
      => /\ last'.pc = "failed"
              => /\ UNCHANGED sessions
                 /\ StepOf(q.from) = "waiting_dates"
                      => (StepOf(q.from))' = "waiting_dates"
         /\ sessions' # sessions => (last'.pc = "done" /\ Len(last'.replies) = 1)

FailureKeepsInv ==
  DatesFailed => (last.at \in MatchedPcs /\ last.saw = "waiting_dates")

\* C18: when a collaborator call rejects during the handling of a text that
\* matched the pattern (the availability query, add(), an artifact step, or
\* the send of the decline or of the confirmation), the request does not
\* remove its sender's session entry: the entry that is there before the
\* failing step is there after it, with step waiting_dates.
FailureKeepsSession == [][FailureKeepsStep]_vars /\ []FailureKeepsInv

\* the send of the decline rejected and the sender is still in waiting_dates
FailureKeepsSessionWitness ==
  /\ DatesFailed
  /\ last.at = "send_decline"
  /\ StepOf(last.from) = "waiting_dates"

\* a greeting or an option digit received in waiting_dates is answered as a
\* text without dates
CommandStep ==
  \A from \in Identities, b \in BodyIds :
    (nreq' # nreq /\ StepOf(from) = "waiting_dates" /\ IsCommand(Msg(b))
       /\ Receive(from, b))
      => /\ UNCHANGED <<sessions, reservas, ftp>>
         /\ \E q \in BagToSet(reqs') :
              /\ Arrived(q, from)
              /\ q.cmd
              /\ q.branch = "dates"
              /\ ~q.matched
              /\ q.pc = "send_invalid"

\* an identity leaves waiting_dates only in the step in which a request of it
\* on a matching text returns
LeaveStep ==
  \A id \in Identities :
    (StepOf(id) = "waiting_dates" /\ (StepOf(id))' # "waiting_dates")
      => \E q \in InFlight :
           /\ q.from = id
           /\ q.branch = "dates"
           /\ q.matched
           /\ SendDeclineDone(q) \/ SendConfirmDone(q)
           /\ last'.pc = "done"

CommandInv ==
  \A q \in Frames :
    (q.cmd /\ q.saw = "waiting_dates")
      => /\ q.branch = "dates"
         /\ ~q.matched
         /\ q.reads = 0
         /\ q.pc \in {"send_invalid", "done", "failed"}
         /\ q.pc = "done"
              => q.replies = << [to |-> q.from, kind |-> "invalid", id |-> 0,
                                 media |-> NoUrl] >>

\* C19: while an identity is in waiting_dates, hola, menu and the digits 1 to
\* 4 are not commands: they are answered with the format error and change
\* nothing; and the identity leaves waiting_dates only in the step in which a
\* request of it on a text that matched the pattern returns, having run to
\* its end without a rejected call.
CommandsAreDateInput == [][CommandStep /\ LeaveStep]_vars /\ []CommandInv

\* a greeting or digit received in waiting_dates was answered with the format
\* error, and its sender is still in waiting_dates
CommandsAreDateInputWitness ==
  /\ last.cmd
  /\ last.saw = "waiting_dates"
  /\ last.pc = "done"
  /\ last.replies[1].kind = "invalid"
  /\ StepOf(last.from) = "waiting_dates"

\* the step in which a date-range request returns removes the session object
\* that request observed when it started
RemovesObservedEntry ==
  \A q \in InFlight :
    ((SendDeclineDone(q) \/ SendConfirmDone(q)) /\ q.from \in DOMAIN sessions)
      => sessions[q.from].obj = q.sawObj

\* C20: the removal at the end of a date-range request removes only the
\* session entry that request observed when it started: a request still in
\* flight never removes an entry its sender created with a later "1".
RemovalOnlyOfObservedEntry == [][RemovesObservedEntry]_vars

====
